---- MODULE Spec2Model ----
(***************************************************************************)
(* A model of matchpy's combinatorial core (src/matchpy/utils.py) and of   *)
(* the rewriting primitives of src/patternmatcher/functions.py.            *)
(*                                                                         *)
(* Python generators are modelled as explicit state: a generator object is *)
(* a record holding its position and its locals, and an action advances it *)
(* the way next() does.  Python integers are unbounded, so no width is     *)
(* modelled; // and % are floor division and floor modulus, as \div and %  *)
(* are here.                                                               *)
(***************************************************************************)
EXTENDS Integers, Sequences, FiniteSets, TLC

VARIABLES
    bsl_in,     \* the arguments (a, b, c) of the base_solution_linear call
    bsl,        \* the base_solution_linear generator: position and locals
    cache,      \* _linear_diop_solution_cache: (total, coeffs) -> tuple of solutions
    enums,      \* the live solve_linear_diop generators, by consumer
    pulled,     \* what each consumer has been handed by its generator so far
    called,     \* the consumers that have made their solve_linear_diop call
    chain_in,   \* generator_chain's arguments: initial_data and the factories
    generators, \* generator_chain's list of live generators, None where there is none
    generator_index,
    next_data,
    chain_pc,   \* "new", "run" (inside the while loop), "yielded" (suspended at a
                \* yield), "done" (returned), "raised" (an exception left it)
    chain_yielded,  \* what generator_chain has handed to its consumer, in order
    part_in,    \* the partitioner's arguments: values, their items() order, variables
    subst,      \* the one dict the multi-variable partitioner threads through the chain
    part_pc,    \* "new", "loop" (in the loop over generator_chain), "done", "raised"
    part_yielded,   \* the fragments the partitioner yielded, each as it was when yielded
    heap,       \* the expression objects: node id -> [kind, name, operands (node ids)]
    expr_in,    \* the arguments of the substitute / replace call, as trees
    expr_pc,    \* "ready", "substituted", "replaced", "done" (nothing to run)
    expr_out,   \* what the call returned or raised
    rw_in,      \* replace_all's arguments: the expression and the rules
    rw_expr,    \* replace_all's local `expression`
    rw_pc,      \* "loop" (at the head of the while loop), "returned", "raised", "done"
    rw_passes,  \* passes of the while loop completed
    vec_in,     \* the vector iterator called and its arguments
    vec,        \* the vector generator: position and the loop variable of each level
    vec_yielded \* the vectors it has yielded, in order

bslVars == <<bsl_in, bsl>>
solveVars == <<cache, enums, pulled, called>>
enumVars == <<enums, pulled, called>>
chainVars == <<chain_in, generators, generator_index, next_data, chain_pc, chain_yielded>>
partVars == <<part_in, subst, part_pc, part_yielded>>
rewriteVars == <<rw_in, rw_expr, rw_pc, rw_passes>>
vecVars == <<vec_in, vec, vec_yielded>>
exprVars == <<heap, expr_in, expr_pc, expr_out, rw_in, rw_expr, rw_pc, rw_passes,
              vec_in, vec, vec_yielded>>

vars == <<bsl_in, bsl, cache, enums, pulled, called,
          chain_in, generators, generator_index, next_data, chain_pc, chain_yielded,
          part_in, subst, part_pc, part_yielded,
          heap, expr_in, expr_pc, expr_out, rw_in, rw_expr, rw_pc, rw_passes,
          vec_in, vec, vec_yielded>>

(***************************************************************************)
(* Bounds                                                                  *)
(***************************************************************************)
MaxCoeff == 4       \* coefficients a, b of base_solution_linear: 0..MaxCoeff
MaxTotal == 9       \* constants c of base_solution_linear: -MaxTotal..MaxTotal
MaxDiopTotal == 3   \* totals of solve_linear_diop: -1..MaxDiopTotal
MaxData == 3        \* initial_data of generator_chain over range factories: 0..MaxData
MaxStages == 3      \* number of factories given to generator_chain: 0..MaxStages
MaxMult == 2        \* multiplicity of a value in the partitioner's multiset: 0..MaxMult
MaxVars == 2        \* number of variables given to the partitioner: 1..MaxVars
MaxCount == 2       \* count of a VariableWithCount: 1..MaxCount
MaxMin == 1         \* minimum of a VariableWithCount: 0..MaxMin
MaxArity == 2       \* operands of the root operation of an input expression: 0..MaxArity
MaxIndex == 2       \* indices in a position given to replace: -2..MaxIndex
MaxRules == 2       \* rules given to replace_all: 1..MaxRules
MaxPasses == 3      \* replacements replace_all is followed through
MaxVecLen == 3      \* length of max_vector: 0..MaxVecLen
MaxComp == 2        \* components of max_vector: 0..MaxComp
MaxPartTotal == 4   \* total of integer_partition_vector_iter: -1..MaxPartTotal
MaxParts == 3       \* parts of integer_partition_vector_iter: -1..MaxParts

(***************************************************************************)
(* Generic helpers                                                         *)
(***************************************************************************)
Abs(n) == IF n < 0 THEN -n ELSE n

Range(s) == {s[i] : i \in 1..Len(s)}

NoDuplicates(s) == \A i, j \in 1..Len(s) : s[i] = s[j] => i = j

IsPrefix(s, t) == Len(s) <= Len(t) /\ SubSeq(t, 1, Len(s)) = s

\* The concatenation of a sequence of sequences
RECURSIVE Flatten(_)
Flatten(ss) == IF Len(ss) = 0 THEN <<>> ELSE ss[1] \o Flatten(Tail(ss))

(***************************************************************************)
(* math.gcd: the greatest common divisor of |a| and |b|, gcd(0, 0) = 0.    *)
(***************************************************************************)
RECURSIVE GcdNat(_, _)
GcdNat(a, b) == IF b = 0 THEN a ELSE GcdNat(b, a % b)

Gcd(a, b) == GcdNat(Abs(a), Abs(b))

(***************************************************************************)
(* extended_euclid(a, b) -> <<x, y, d>>                                    *)
(***************************************************************************)
RECURSIVE extended_euclid(_, _)
extended_euclid(a, b) ==
    IF b = 0
    THEN <<1, 0, a>>
    ELSE LET r == extended_euclid(b, a % b)
             x0 == r[1]
             y0 == r[2]
         IN  <<y0, x0 - (a \div b) * y0, r[3]>>

(***************************************************************************)
(* base_solution_linear(a, b, c), a generator.  BslNew is the generator    *)
(* object before its first next(); BslEnter runs the body up to the loops; *)
(* BslIterate is one iteration of whichever while loop the body is in.     *)
(* pc: "new", "up" (the x <= 0 loop), "down" (the else loop), "done"       *)
(* (returned) and "raised" (ValueError).                                   *)
(***************************************************************************)
BslNew(a, b, c) ==
    [pc |-> "new", a |-> a, b |-> b, c |-> c, x |-> 0, y |-> 0, yielded |-> <<>>]

BslEnter(g) ==
    IF g.a <= 0 \/ g.b <= 0
    THEN [g EXCEPT !.pc = "raised"]
    ELSE LET d == Gcd(g.a, Gcd(g.b, g.c))
             a == g.a \div d
             b == g.b \div d
             c == g.c \div d
             n == [g EXCEPT !.a = a, !.b = b, !.c = c]
         IN  IF c = 0
             THEN [n EXCEPT !.pc = "done", !.yielded = <<<<0, 0>>>>]
             ELSE LET e  == extended_euclid(a, b)
                      x0 == e[1]
                      y0 == e[2]
                      d2 == e[3]
                  IN  IF c % d2 # 0
                      THEN [n EXCEPT !.pc = "done"]
                      ELSE [n EXCEPT !.x = c * x0, !.y = c * y0,
                                     !.pc = IF c * x0 <= 0 THEN "up" ELSE "down"]

BslIterateBuggy(g) ==
    IF g.pc = "up"
    THEN IF g.y >= 0
         THEN [g EXCEPT !.yielded = IF g.x > 0 THEN Append(@, <<g.x, g.y>>) ELSE @,
                        !.x = @ + g.b, !.y = @ - g.a]
         ELSE [g EXCEPT !.pc = "done"]
    ELSE IF g.x >= 0
         THEN [g EXCEPT !.yielded = IF g.y > 0 THEN Append(@, <<g.x, g.y>>) ELSE @,
                        !.x = @ - g.b, !.y = @ + g.a]
         ELSE [g EXCEPT !.pc = "done"]

BslIterate(g) ==
    IF g.pc = "up"
    THEN IF g.y >= 0
         THEN [g EXCEPT !.yielded = IF g.x >= 0 THEN Append(@, <<g.x, g.y>>) ELSE @,
                        !.x = @ + g.b, !.y = @ - g.a]
         ELSE [g EXCEPT !.pc = "done"]
    ELSE IF g.x >= 0
         THEN [g EXCEPT !.yielded = IF g.y >= 0 THEN Append(@, <<g.x, g.y>>) ELSE @,
                        !.x = @ - g.b, !.y = @ + g.a]
         ELSE [g EXCEPT !.pc = "done"]

RECURSIVE BslRun(_)
BslRun(g) ==
    IF g.pc = "new" THEN BslRun(BslEnter(g))
    ELSE IF g.pc \in {"up", "down"} THEN BslRun(BslIterate(g))
    ELSE g

\* list(base_solution_linear(a, b, c)) for positive a and b
BaseSolutionLinear(a, b, c) == BslRun(BslNew(a, b, c)).yielded

(***************************************************************************)
(* Specification SpecBsl: one base_solution_linear generator, drained.     *)
(***************************************************************************)
IdleEnums ==
    /\ enums = <<>>
    /\ pulled = <<>>
    /\ called = <<>>

IdleChain ==
    /\ chain_in = <<>>
    /\ generators = <<>>
    /\ generator_index = 0
    /\ next_data = 0
    /\ chain_pc = "done"
    /\ chain_yielded = <<>>

IdlePart ==
    /\ part_in = <<>>
    /\ subst = <<>>
    /\ part_pc = "done"
    /\ part_yielded = <<>>

IdleRewrite ==
    /\ rw_in = <<>>
    /\ rw_expr = <<>>
    /\ rw_pc = "done"
    /\ rw_passes = 0

IdleCall ==
    /\ heap = <<>>
    /\ expr_in = [op |-> "none"]
    /\ expr_pc = "done"
    /\ expr_out = [kind |-> "none"]

IdleVec ==
    /\ vec_in = [fn |-> "none"]
    /\ vec = [pc |-> "done", loop |-> <<>>]
    /\ vec_yielded = <<>>

IdleExpr == IdleCall /\ IdleRewrite /\ IdleVec

InitBsl ==
    /\ IdleExpr
    /\ cache = <<>>
    /\ IdleEnums
    /\ IdleChain
    /\ IdlePart
    /\ bsl_in \in (0..MaxCoeff) \X (0..MaxCoeff) \X ((-MaxTotal)..MaxTotal)
    /\ bsl = BslNew(bsl_in[1], bsl_in[2], bsl_in[3])

BslStart ==
    /\ bsl.pc = "new"
    /\ bsl' = BslEnter(bsl)
    /\ UNCHANGED <<bsl_in, solveVars, chainVars, partVars, exprVars>>

BslUp ==
    /\ bsl.pc = "up"
    /\ bsl' = BslIterate(bsl)
    /\ UNCHANGED <<bsl_in, solveVars, chainVars, partVars, exprVars>>

BslDown ==
    /\ bsl.pc = "down"
    /\ bsl' = BslIterate(bsl)
    /\ UNCHANGED <<bsl_in, solveVars, chainVars, partVars, exprVars>>

NextBsl == BslStart \/ BslUp \/ BslDown

\* The consumer of the claim drains the generator, so a pending step is taken.
SpecBsl == InitBsl /\ [][NextBsl]_vars /\ WF_vars(NextBsl)

(***************************************************************************)
(* C6                                                                      *)
(***************************************************************************)
BslSolutions(a, b, c) ==
    {p \in (0..Abs(c)) \X (0..Abs(c)) : a * p[1] + b * p[2] = c}

BslValidArgs == bsl_in[1] > 0 /\ bsl_in[2] > 0

BslYieldedSound ==
    BslValidArgs =>
        /\ Range(bsl.yielded) \subseteq BslSolutions(bsl_in[1], bsl_in[2], bsl_in[3])
        /\ NoDuplicates(bsl.yielded)
        /\ bsl.pc # "raised"

BslYieldedComplete ==
    (BslValidArgs /\ bsl.pc = "done") =>
        /\ Range(bsl.yielded) = BslSolutions(bsl_in[1], bsl_in[2], bsl_in[3])
        /\ (bsl_in[3] = 0 => bsl.yielded = <<<<0, 0>>>>)

\* C6: for positive a, b and any integer c, base_solution_linear(a, b, c) yields
\* each non-negative solution (x, y) of a*x + b*y = c exactly once and nothing
\* else, yields exactly (0, 0) when c = 0, and the enumeration terminates.
C6_BaseSolutionExact ==
    /\ [](BslYieldedSound /\ BslYieldedComplete)
    /\ <>(bsl.pc \in {"done", "raised"})

C6_Witness ==
    /\ BslValidArgs
    /\ bsl.pc = "done"
    /\ Len(bsl.yielded) >= 3
    /\ bsl_in[1] > 1 /\ bsl_in[2] > 1

(***************************************************************************)
(* solve_linear_diop(total, *coeffs), a generator that reads and writes    *)
(* the module-level cache.  A generator object is a record:                *)
(*   pc        "new" (body not entered), "last" (suspended at the only     *)
(*             yield of the 0- and 1-coefficient cases), "replay" (in the  *)
(*             loop over the cached tuple), "two" (in the loop over        *)
(*             base_solution_linear, two coefficients), "many" (in the     *)
(*             nested loops, more than two coefficients), "done"           *)
(*   seq, i    the sequence the active for loop iterates and how many of   *)
(*             its items the loop has taken                                *)
(*   solutions the local list                                              *)
(*   inner     <<>> or <<g>>: the recursive generator of the inner loop    *)
(* base_solution_linear touches no shared state, so the loop over it is    *)
(* a loop over the sequence it yields.                                     *)
(***************************************************************************)
None == <<>>

Some(v) == <<v>>

SolveNew(total, coeffs) ==
    [pc |-> "new", total |-> total, coeffs |-> coeffs, seq |-> <<>>, i |-> 0,
     solutions |-> <<>>, inner |-> None]

CacheKey(g) == <<g.total, g.coeffs>>

\* _linear_diop_solution_cache[cache_key] = tuple(solutions)
SolveStore(c, g) ==
    [k \in (DOMAIN c) \cup {CacheKey(g)} |->
        IF k = CacheKey(g) THEN g.solutions ELSE c[k]]

\* remainder_gcd = gcd(coeffs[1:])
RECURSIVE GcdOfSeq(_)
GcdOfSeq(s) == IF Len(s) = 1 THEN s[1] ELSE Gcd(s[1], GcdOfSeq(Tail(s)))

RemainderGcd(coeffs) == GcdOfSeq(Tail(coeffs))

NewCoeffs(coeffs) ==
    [k \in 1..(Len(coeffs) - 1) |-> coeffs[k + 1] \div RemainderGcd(coeffs)]

\* The result of one next(): the generator afterwards, the cache afterwards,
\* and out = <<v>> for a yielded v, <<>> for StopIteration.
Step(g, c, out) == [gen |-> g, cache |-> c, out |-> out]

RECURSIVE SolveNext(_, _)
SolveNext(g, c) ==
    CASE g.pc = "new" ->
            IF Len(g.coeffs) = 0
            THEN IF g.total = 0
                 THEN Step([g EXCEPT !.pc = "last"], c, Some(<<>>))
                 ELSE Step([g EXCEPT !.pc = "done"], c, None)
            ELSE IF Len(g.coeffs) = 1
            THEN IF g.total % g.coeffs[1] = 0
                 THEN Step([g EXCEPT !.pc = "last"], c, Some(<<g.total \div g.coeffs[1]>>))
                 ELSE Step([g EXCEPT !.pc = "done"], c, None)
            ELSE IF CacheKey(g) \in DOMAIN c
            THEN SolveNext([g EXCEPT !.pc = "replay", !.seq = c[CacheKey(g)]], c)
            ELSE IF Len(g.coeffs) = 2
            THEN SolveNext([g EXCEPT !.pc = "two",
                     !.seq = BaseSolutionLinear(g.coeffs[1], g.coeffs[2], g.total)], c)
            ELSE SolveNext([g EXCEPT !.pc = "many",
                     !.seq = BaseSolutionLinear(g.coeffs[1], RemainderGcd(g.coeffs), g.total)], c)
      [] g.pc = "last" -> Step([g EXCEPT !.pc = "done"], c, None)
      [] g.pc = "replay" ->
            IF g.i < Len(g.seq)
            THEN Step([g EXCEPT !.i = @ + 1], c, Some(g.seq[g.i + 1]))
            ELSE Step([g EXCEPT !.pc = "done"], c, None)
      [] g.pc = "two" ->
            IF g.i < Len(g.seq)
            THEN Step([g EXCEPT !.i = @ + 1, !.solutions = Append(@, g.seq[g.i + 1])],
                      c, Some(g.seq[g.i + 1]))
            ELSE Step([g EXCEPT !.pc = "done"], SolveStore(c, g), None)
      [] g.pc = "many" ->
            IF g.inner = None
            THEN IF g.i < Len(g.seq)
                 THEN SolveNext([g EXCEPT !.i = @ + 1,
                          !.inner = Some(SolveNew(g.seq[g.i + 1][2], NewCoeffs(g.coeffs)))], c)
                 ELSE Step([g EXCEPT !.pc = "done"], SolveStore(c, g), None)
            ELSE LET r == SolveNext(g.inner[1], c)
                 IN  IF r.out # None
                     THEN LET solution == <<g.seq[g.i][1]>> \o r.out[1]
                          IN  Step([g EXCEPT !.inner = Some(r.gen),
                                             !.solutions = Append(@, solution)],
                                   r.cache, Some(solution))
                     ELSE SolveNext([g EXCEPT !.inner = None], r.cache)
      [] OTHER -> Step(g, c, None)

\* A finally-style write of whatever was collected when the generator is dropped.
SolveCloseBuggy(g, c) ==
    IF g.pc \in {"two", "many"} THEN SolveStore(c, g) ELSE c

\* The cache after a suspended generator is dropped: the body has no try/finally,
\* so nothing of it runs and the cache is left as it is.
SolveClose(g, c) == c

(***************************************************************************)
(* Specification SpecSolve: each consumer calls solve_linear_diop once, on *)
(* any valid arguments, at any time; the consumers pull from their         *)
(* generators in any interleaving and may drop a generator at any point.   *)
(***************************************************************************)
Consumers == {"c1", "c2"}

\* The coefficient tuples called with: none, one, two and more than two
\* coefficients (the four branches of the code), with and without common factors
CoeffTuples == UNION {[1..n -> {1, 2}] : n \in {0, 1, 2, 3}}

Totals == (-1)..MaxDiopTotal

IdleBsl ==
    /\ bsl_in = <<1, 1, 0>>
    /\ bsl = BslNew(1, 1, 0)

InitSolve ==
    /\ IdleExpr
    /\ IdleBsl
    /\ IdleChain
    /\ IdlePart
    /\ cache = <<>>
    /\ enums = [u \in Consumers |-> None]
    /\ pulled = [u \in Consumers |-> <<>>]
    /\ called = [u \in Consumers |-> FALSE]

SolveCall(u, total, coeffs) ==
    /\ ~called[u]
    /\ enums' = [enums EXCEPT ![u] = Some(SolveNew(total, coeffs))]
    /\ pulled' = [pulled EXCEPT ![u] = <<>>]
    /\ called' = [called EXCEPT ![u] = TRUE]
    /\ UNCHANGED <<cache, bslVars, chainVars, partVars, exprVars>>

SolvePull(u) ==
    /\ enums[u] # None
    /\ enums[u][1].pc # "done"
    /\ LET r == SolveNext(enums[u][1], cache)
       IN  /\ enums' = [enums EXCEPT ![u] = Some(r.gen)]
           /\ cache' = r.cache
           /\ pulled' = [pulled EXCEPT ![u] = @ \o r.out]
    /\ UNCHANGED <<called, bslVars, chainVars, partVars, exprVars>>

SolveDrop(u) ==
    /\ enums[u] # None
    /\ cache' = SolveClose(enums[u][1], cache)
    /\ enums' = [enums EXCEPT ![u] = None]
    /\ pulled' = [pulled EXCEPT ![u] = <<>>]
    /\ UNCHANGED <<called, bslVars, chainVars, partVars, exprVars>>

NextSolve ==
    \/ \E u \in Consumers, total \in Totals, coeffs \in CoeffTuples :
            SolveCall(u, total, coeffs)
    \/ \E u \in Consumers : SolvePull(u)
    \/ \E u \in Consumers : SolveDrop(u)

SpecSolve == InitSolve /\ [][NextSolve]_vars

(***************************************************************************)
(* C2, C3                                                                  *)
(***************************************************************************)
RECURSIVE WeightedSum(_, _)
WeightedSum(coeffs, x) ==
    IF Len(coeffs) = 0 THEN 0
    ELSE coeffs[1] * x[1] + WeightedSum(Tail(coeffs), Tail(x))

\* The non-negative integer solutions of sum(coeffs[i] * x[i]) = total, for
\* positive coeffs (so that no component exceeds total).
DiopSolutions(total, coeffs) ==
    {x \in [1..Len(coeffs) -> 0..(IF total < 0 THEN 0 ELSE total)] :
        WeightedSum(coeffs, x) = total}

\* C2: for every integer total and every tuple of positive coefficients,
\* solve_linear_diop yields exactly the non-negative integer solutions: each
\* yielded tuple has len(coeffs) components, all >= 0, and satisfies the
\* equation, and a drained enumeration has yielded every solution.
C2_SolveExact ==
    \A u \in Consumers :
        enums[u] # None =>
            LET g == enums[u][1]
            IN  /\ Range(pulled[u]) \subseteq DiopSolutions(g.total, g.coeffs)
                /\ g.pc = "done" => Range(pulled[u]) = DiopSolutions(g.total, g.coeffs)

\* What C2 leaves standing: the same, for totals that are not negative.
SolveExactFromZero ==
    \A u \in Consumers :
        (enums[u] # None /\ enums[u][1].total >= 0) =>
            LET g == enums[u][1]
            IN  /\ Range(pulled[u]) \subseteq DiopSolutions(g.total, g.coeffs)
                /\ NoDuplicates(pulled[u])
                /\ g.pc = "done" => Range(pulled[u]) = DiopSolutions(g.total, g.coeffs)

\* The sequence solve_linear_diop computes when it finds nothing in the cache,
\* at any level of its recursion.
RECURSIVE SolveUncached(_, _)
SolveUncached(total, coeffs) ==
    IF Len(coeffs) = 0 THEN (IF total = 0 THEN <<<<>>>> ELSE <<>>)
    ELSE IF Len(coeffs) = 1
    THEN (IF total % coeffs[1] = 0 THEN <<<<total \div coeffs[1]>>>> ELSE <<>>)
    ELSE IF Len(coeffs) = 2 THEN BaseSolutionLinear(coeffs[1], coeffs[2], total)
    ELSE LET base == BaseSolutionLinear(coeffs[1], RemainderGcd(coeffs), total)
             rest(k) == SolveUncached(base[k][2], NewCoeffs(coeffs))
         IN  Flatten([k \in 1..Len(base) |->
                        [j \in 1..Len(rest(k)) |-> <<base[k][1]>> \o rest(k)[j]]])

\* C3: every entry of the solution cache is the complete sequence an uncached
\* computation produces for its key, whatever was pulled, interleaved or
\* dropped before; so every enumeration, replayed or computed, hands out that
\* sequence: a prefix of it while suspended, all of it once drained.
C3_CacheComplete ==
    /\ \A k \in DOMAIN cache : cache[k] = SolveUncached(k[1], k[2])
    /\ \A u \in Consumers :
          enums[u] # None =>
            LET g == enums[u][1]
                full == SolveUncached(g.total, g.coeffs)
            IN  /\ IsPrefix(pulled[u], full)
                /\ g.pc = "done" => pulled[u] = full

\* A call is being served from the cache, two or more solutions replayed so
\* far, next to a drained three-coefficient enumeration that stored its own.
C3_Witness ==
    \E u, w \in Consumers :
        /\ u # w
        /\ enums[u] # None /\ enums[w] # None
        /\ enums[u][1].pc = "replay"
        /\ Len(pulled[u]) >= 2
        /\ CacheKey(enums[w][1]) \in DOMAIN cache
        /\ Len(enums[w][1].coeffs) = 3

(***************************************************************************)
(* Generators handed to generator_chain.  A factory is a record; calling   *)
(* it on a datum makes a generator, and GenNext is next() on that.         *)
(*   range factories ("upto", "below", "twice", "pred") are pure: the      *)
(*     generator iterates a sequence fixed by the datum it was made from;  *)
(*   a "var" factory is _make_variable_generator_factory(value, total,     *)
(*     variables): its generator loops over solve_linear_diop(total,       *)
(*     *var_counts) and, for each solution, writes the counts of `value`   *)
(*     into the dict it was given and yields that same dict.               *)
(* The dict is one object; a datum that refers to it is the string "subst" *)
(* and its content is the variable subst.                                  *)
(***************************************************************************)
RangeKinds == {"upto", "below", "twice", "pred"}

FactorySeq(f, d) ==
    CASE f.kind = "upto"  -> [k \in 1..d |-> k]
      [] f.kind = "below" -> [k \in 1..d |-> k - 1]
      [] f.kind = "twice" -> <<d, d>>
      [] f.kind = "pred"  -> IF d > 0 THEN <<d - 1>> ELSE <<>>

VarCounts(variables) == [k \in 1..Len(variables) |-> variables[k].count]

\* factories[generator_index](next_data)
MakeGenerator(f, d) ==
    IF f.kind \in RangeKinds
    THEN [kind |-> "range", seq |-> FactorySeq(f, d), i |-> 0]
    ELSE [kind |-> "var", value |-> f.value,
          solve |-> SolveNew(f.total, VarCounts(part_in.variables))]

\* The counts are added to what the dict holds instead of replacing it.
RECURSIVE AssignCountsBuggy(_, _, _, _, _)
AssignCountsBuggy(sub, variables, value, solution, k) ==
    IF k > Len(variables) THEN [subst |-> sub, raised |-> FALSE]
    ELSE IF variables[k].name \notin DOMAIN sub THEN [subst |-> sub, raised |-> TRUE]
    ELSE AssignCountsBuggy([sub EXCEPT ![variables[k].name][value] = @ + solution[k]],
                           variables, value, solution, k + 1)

\* for var, count in zip(variables, solution): subst[var.name][value] = count
\* A name that is no key of the dict raises KeyError, after the writes before it.
RECURSIVE AssignCounts(_, _, _, _, _)
AssignCounts(sub, variables, value, solution, k) ==
    IF k > Len(variables) THEN [subst |-> sub, raised |-> FALSE]
    ELSE IF variables[k].name \notin DOMAIN sub THEN [subst |-> sub, raised |-> TRUE]
    ELSE AssignCounts([sub EXCEPT ![variables[k].name][value] = solution[k]],
                      variables, value, solution, k + 1)

GenResult(g, out, sub, c, raised) ==
    [gen |-> g, out |-> out, subst |-> sub, cache |-> c, raised |-> raised]

\* next(generators[generator_index]): out = <<v>> or <<>> for StopIteration
GenNext(g, sub, c) ==
    IF g.kind = "range"
    THEN IF g.i < Len(g.seq)
         THEN GenResult([g EXCEPT !.i = @ + 1], Some(g.seq[g.i + 1]), sub, c, FALSE)
         ELSE GenResult(g, None, sub, c, FALSE)
    ELSE LET r == SolveNext(g.solve, c)
             n == [g EXCEPT !.solve = r.gen]
         IN  IF r.out = None
             THEN GenResult(n, None, sub, r.cache, FALSE)
             ELSE LET a == AssignCounts(sub, part_in.variables, g.value, r.out[1], 1)
                  IN  GenResult(n, IF a.raised THEN None ELSE Some("subst"),
                                a.subst, r.cache, a.raised)

(***************************************************************************)
(* generator_chain(initial_data, *factories), in steps of its loops.       *)
(* generator_index is 0-based as in the code; generators is 1-based here.  *)
(***************************************************************************)
generator_count == Len(chain_in.factories)

\* generator_index after a yield is resumed, restarting the chain at stage 0
IndexAfterYieldBuggy(i) == 0

\* generator_index -= 1, the statement after the yield
IndexAfterYield(i) == i - 1

\* The exhausted generator is kept in its slot.
GeneratorsAfterStopBuggy(gens, i) == gens

\* generators[generator_index] = None, in the except clause
GeneratorsAfterStop(gens, i) == [gens EXCEPT ![i + 1] = None]

\* The first next(): the body up to the while loop, or the zero-factory yield.
ChainStart ==
    /\ chain_pc = "new"
    /\ IF generator_count = 0
       THEN /\ chain_yielded' = Append(chain_yielded, chain_in.initial_data)
            /\ chain_pc' = "yielded"
            /\ UNCHANGED <<generators, generator_index, next_data>>
       ELSE /\ generators' = [k \in 1..generator_count |-> None]
            /\ next_data' = chain_in.initial_data
            /\ generator_index' = 0
            /\ chain_pc' = "run"
            /\ UNCHANGED chain_yielded
    /\ UNCHANGED <<chain_in, subst, cache>>

\* One iteration of the inner while loop, with the except clause when next() stops.
ChainAdvance ==
    /\ chain_pc = "run"
    /\ generator_index < generator_count
    /\ LET made == IF generators[generator_index + 1] = None
                   THEN MakeGenerator(chain_in.factories[generator_index + 1], next_data)
                   ELSE generators[generator_index + 1][1]
           r == GenNext(made, subst, cache)
           gens == [generators EXCEPT ![generator_index + 1] = Some(r.gen)]
       IN  /\ subst' = r.subst
           /\ cache' = r.cache
           /\ IF r.raised
              THEN /\ generators' = gens
                   /\ chain_pc' = "raised"
                   /\ UNCHANGED <<next_data, generator_index>>
              ELSE IF r.out # None
              THEN /\ generators' = gens
                   /\ next_data' = r.out[1]
                   /\ generator_index' = generator_index + 1
                   /\ UNCHANGED chain_pc
              ELSE /\ generators' = GeneratorsAfterStop(gens, generator_index)
                   /\ generator_index' = generator_index - 1
                   /\ chain_pc' = IF generator_index - 1 < 0 THEN "done" ELSE "run"
                   /\ UNCHANGED next_data
    /\ UNCHANGED <<chain_in, chain_yielded>>

\* yield next_data
ChainYield ==
    /\ chain_pc = "run"
    /\ generator_index = generator_count
    /\ chain_yielded' = Append(chain_yielded, next_data)
    /\ chain_pc' = "yielded"
    /\ UNCHANGED <<chain_in, generators, generator_index, next_data, subst, cache>>

\* The consumer's next next(): the code after the yield that suspended the chain.
ChainResumed ==
    /\ chain_pc = "yielded"
    /\ IF generator_count = 0
       THEN chain_pc' = "done" /\ UNCHANGED generator_index
       ELSE chain_pc' = "run" /\ generator_index' = IndexAfterYield(generator_index)
    /\ UNCHANGED <<chain_in, generators, next_data, chain_yielded>>

(***************************************************************************)
(* Specification SpecChain: generator_chain over range factories, drained. *)
(***************************************************************************)
RangeFactories == {[kind |-> k] : k \in RangeKinds}

InitChain ==
    /\ IdleExpr
    /\ IdleBsl
    /\ cache = <<>>
    /\ IdleEnums
    /\ IdlePart
    /\ chain_in \in [initial_data : 0..MaxData,
                     factories : UNION {[1..n -> RangeFactories] : n \in 0..MaxStages}]
    /\ generators = <<>>
    /\ generator_index = 0
    /\ next_data = 0
    /\ chain_pc = "new"
    /\ chain_yielded = <<>>

ChainPull ==
    /\ ChainResumed
    /\ UNCHANGED <<subst, cache>>

ChainFrame == UNCHANGED <<bslVars, enumVars, part_in, part_pc, part_yielded, exprVars>>

NextChain ==
    \/ (ChainStart /\ ChainFrame)
    \/ (ChainAdvance /\ ChainFrame)
    \/ (ChainYield /\ ChainFrame)
    \/ (ChainPull /\ ChainFrame)

\* The consumer of the claim drains the chain, so a pending step is taken.
SpecChain == InitChain /\ [][NextChain]_vars /\ WF_vars(NextChain)

(***************************************************************************)
(* C1                                                                      *)
(***************************************************************************)
\* for d1 in f1(d): for d2 in f2(d1): ... emit dn, as a list; <<d>> without factories
RECURSIVE NestedLoops(_, _)
NestedLoops(d, fs) ==
    IF Len(fs) = 0 THEN <<d>>
    ELSE LET outer == FactorySeq(fs[1], d)
         IN  Flatten([k \in 1..Len(outer) |-> NestedLoops(outer[k], Tail(fs))])

ChainExpected == NestedLoops(chain_in.initial_data, chain_in.factories)

\* C1: generator_chain(initial, f1..fn) yields exactly the sequence the n nested
\* loops produce, same elements, order and multiplicity, and then stops; with
\* no factories it yields initial_data once.
C1_ChainIsNestedLoops ==
    /\ [](IsPrefix(chain_yielded, ChainExpected))
    /\ [](chain_pc = "done" => chain_yielded = ChainExpected)
    /\ [](generator_count = 0 /\ chain_pc = "done"
            => chain_yielded = <<chain_in.initial_data>>)
    /\ <>(chain_pc = "done")

\* A three-stage chain that backed up to its first stage and is drained.
C1_Witness ==
    /\ chain_pc = "done"
    /\ generator_count = 3
    /\ Len(chain_yielded) >= 4
    /\ \E k \in 1..(Len(chain_yielded) - 1) : chain_yielded[k] = chain_yielded[k + 1]

(***************************************************************************)
(* commutative_sequence_variable_partition_iter(values, variables).        *)
(* A Multiset is a function from the values to their multiplicities (0 for *)
(* an absent value); a fragment (a dict from names to Multisets) is a      *)
(* function on the names it has.  The name None is the string NoneName.    *)
(***************************************************************************)
Values == {"a", "b"}

VarNames == <<"x", "y", "z", "w">>

NoneName == "<None>"

EmptyMultiset == [v \in Values |-> 0]

RECURSIVE SumOver(_, _)
SumOver(f, S) ==
    IF S = {} THEN 0
    ELSE LET v == CHOOSE w \in S : TRUE IN f[v] + SumOver(f, S \ {v})

\* len(multiset): the number of elements, with multiplicity
MultisetLen(m) == SumOver(m, Values)

\* {name: m} if name is not None else {}
SingleFragment(name, m) ==
    IF name # NoneName THEN [n \in {name} |-> m] ELSE <<>>

\* _commutative_single_variable_partiton_iter(values, variable): the fragments
\* it yields, none or one
SingleVariablePartition(values, variable) ==
    IF variable.count = 1
    THEN IF MultisetLen(values) >= variable.minimum
         THEN <<SingleFragment(variable.name, values)>>
         ELSE <<>>
    ELSE IF \E v \in Values : values[v] % variable.count # 0
         THEN <<>>
         ELSE LET new_values == [v \in Values |-> values[v] \div variable.count]
              IN  IF MultisetLen(new_values) >= variable.minimum
                  THEN <<SingleFragment(variable.name, new_values)>>
                  ELSE <<>>

VarNameSet(variables) == {variables[k].name : k \in 1..Len(variables)}

\* valid, as the loop over the variables computes it
FragmentValid(sub, variables) ==
    \A k \in 1..Len(variables) :
        ~(MultisetLen(sub[variables[k].name]) < variables[k].minimum)

\* if None in subst: del subst[None]
WithoutNone(sub) == [n \in (DOMAIN sub) \ {NoneName} |-> sub[n]]

\* The first next() of the partitioner: the single-variable case entirely, or
\* the set-up of the chain of per-value generators.
PartStart ==
    /\ part_pc = "new"
    /\ IF Len(part_in.variables) = 1
       THEN /\ part_yielded' =
                   SingleVariablePartition(part_in.values, part_in.variables[1])
            /\ part_pc' = "done"
            /\ UNCHANGED <<subst, chainVars>>
       ELSE /\ chain_in' =
                   [initial_data |-> "subst",
                    factories |-> [k \in 1..Len(part_in.order) |->
                        [kind |-> "var", value |-> part_in.order[k],
                         total |-> part_in.values[part_in.order[k]]]]]
            /\ subst' = [n \in VarNameSet(part_in.variables) |-> EmptyMultiset]
            /\ chain_pc' = "new"
            /\ part_pc' = "loop"
            /\ UNCHANGED <<generators, generator_index, next_data, chain_yielded,
                           part_yielded>>
    /\ UNCHANGED <<part_in, cache, bslVars, enumVars, exprVars>>

\* generator_chain running inside the partitioner's for loop
PartChainFrame == UNCHANGED <<bslVars, enumVars, part_in, part_pc, part_yielded, exprVars>>

PartChainStart == part_pc = "loop" /\ ChainStart /\ PartChainFrame

PartChainAdvance == part_pc = "loop" /\ ChainAdvance /\ PartChainFrame

PartChainYield == part_pc = "loop" /\ ChainYield /\ PartChainFrame

\* The body of the for loop for the dict the chain just yielded: the check
\* against the minima and, for a valid fragment, the yield of that dict; then
\* the next iteration resumes the chain.
PartBody ==
    /\ part_pc = "loop"
    /\ chain_pc = "yielded"
    /\ IF FragmentValid(subst, part_in.variables)
       THEN /\ subst' = WithoutNone(subst)
            /\ part_yielded' = Append(part_yielded, subst')
       ELSE UNCHANGED <<subst, part_yielded>>
    /\ ChainResumed
    /\ UNCHANGED <<part_in, part_pc, cache, bslVars, enumVars, exprVars>>

\* The chain is exhausted: the for loop and the partitioner end.
PartEnd ==
    /\ part_pc = "loop"
    /\ chain_pc = "done"
    /\ part_pc' = "done"
    /\ UNCHANGED <<part_in, subst, part_yielded, chainVars, cache, bslVars, enumVars, exprVars>>

\* An exception left the chain: nothing catches it, it leaves the partitioner.
PartRaise ==
    /\ part_pc = "loop"
    /\ chain_pc = "raised"
    /\ part_pc' = "raised"
    /\ UNCHANGED <<part_in, subst, part_yielded, chainVars, cache, bslVars, enumVars, exprVars>>

(***************************************************************************)
(* Specification SpecPart: one partitioner call, drained.                  *)
(***************************************************************************)
Multisets == [Values -> 0..MaxMult]

\* values.items(): the values present, each once.  The order is that of
\* insertion; the multiplicities range over every combination, so one order of
\* the value names stands for all of them.
ValueOrder == <<"a", "b">>

RECURSIVE ItemsFrom(_, _)
ItemsFrom(m, k) ==
    IF k > Len(ValueOrder) THEN <<>>
    ELSE (IF m[ValueOrder[k]] > 0 THEN <<ValueOrder[k]>> ELSE <<>>) \o ItemsFrom(m, k + 1)

Items(m) == ItemsFrom(m, 1)

\* Lists of variables with distinct names, at most one of them anonymous
VariableLists ==
    {vl \in UNION {[1..n -> [name : Range(VarNames) \cup {NoneName},
                             count : 1..MaxCount,
                             minimum : 0..MaxMin]] : n \in 1..MaxVars} :
        /\ \A k \in 1..Len(vl) : vl[k].name \in {VarNames[k], NoneName}
        /\ \A j, k \in 1..Len(vl) : vl[j].name = vl[k].name => j = k}

InitPart ==
    /\ IdleExpr
    /\ IdleBsl
    /\ IdleEnums
    /\ IdleChain
    /\ cache = <<>>
    /\ \E m \in Multisets, vl \in VariableLists :
            part_in = [values |-> m, order |-> Items(m), variables |-> vl]
    /\ subst = <<>>
    /\ part_pc = "new"
    /\ part_yielded = <<>>

NextPart ==
    \/ PartStart
    \/ PartChainStart
    \/ PartChainAdvance
    \/ PartChainYield
    \/ PartBody
    \/ PartEnd
    \/ PartRaise

SpecPart == InitPart /\ [][NextPart]_vars

(***************************************************************************)
(* C4, C5                                                                  *)
(***************************************************************************)
AllNamed == \A k \in 1..Len(part_in.variables) : part_in.variables[k].name # NoneName

RECURSIVE WeightedCount(_, _, _, _)
WeightedCount(S, variables, v, k) ==
    IF k > Len(variables) THEN 0
    ELSE variables[k].count * S[variables[k].name][v]
            + WeightedCount(S, variables, v, k + 1)

\* The count-weighted multiplicities of fragment S reconstruct values.
Reconstructs(S, values, variables) ==
    /\ DOMAIN S = VarNameSet(variables)
    /\ \A v \in Values : WeightedCount(S, variables, v, 1) = values[v]

\* part_yielded only grows, by appending the fragment as it is when yielded:
\* every fragment is the last one in the state its yield produces.
LastYielded == part_yielded[Len(part_yielded)]

\* C4: each fragment, at the moment it is yielded, accounts for every value
\* exactly: the sum over the variables of count * multiplicity in the variable's
\* sub-multiset is the value's multiplicity in the input.
C4_FragmentsReconstruct ==
    (AllNamed /\ part_yielded # <<>>) =>
        Reconstructs(LastYielded, part_in.values, part_in.variables)

\* Two or more variables, one of them with count 2, and a second fragment
\* yielded after the chain backed up.
C4_Witness ==
    /\ AllNamed
    /\ part_pc = "done"
    /\ Len(part_in.variables) >= 2
    /\ \E k \in 1..Len(part_in.variables) : part_in.variables[k].count = 2
    /\ Len(part_yielded) >= 2
    /\ \A v \in Values : part_in.values[v] > 0

\* Every assignment of sub-multisets that reconstructs values and meets each
\* variable's minimum
IsValidAssignment(S, values, variables) ==
    /\ Reconstructs(S, values, variables)
    /\ \A k \in 1..Len(variables) :
          MultisetLen(S[variables[k].name]) >= variables[k].minimum

\* count >= 1, so a sub-multiset that reconstructs values is within values
SubMultisets(values) == {m \in Multisets : \A v \in Values : m[v] <= values[v]}

ValidAssignments(values, variables) ==
    {S \in [VarNameSet(variables) -> SubMultisets(values)] :
        IsValidAssignment(S, values, variables)}

\* C5: for named variables with distinct names the partitioner yields every
\* valid assignment exactly once and nothing else: nothing below a minimum,
\* and nothing at all for a single variable with count > 1 when a multiplicity
\* is not divisible by count.
C5_PartitionsExact ==
    (part_pc # "new" /\ AllNamed) =>
        /\ part_yielded # <<>> =>
              IsValidAssignment(LastYielded, part_in.values, part_in.variables)
        /\ part_pc # "raised"
        /\ part_pc = "done" =>
              /\ NoDuplicates(part_yielded)
              /\ ValidAssignments(part_in.values, part_in.variables)
                    \subseteq Range(part_yielded)
              /\ (/\ Len(part_in.variables) = 1
                  /\ part_in.variables[1].count > 1
                  /\ \E v \in Values : part_in.values[v] % part_in.variables[1].count # 0)
                 => part_yielded = <<>>

\* A drained multi-variable call in which a minimum rejected some assignment
\* and others were yielded.
C5_Witness ==
    /\ AllNamed
    /\ part_pc = "done"
    /\ Len(part_in.variables) >= 2
    /\ Len(part_yielded) >= 2
    /\ Len(part_yielded) < Len(chain_yielded)

(***************************************************************************)
(* C14, C15                                                                *)
(***************************************************************************)
HasAnonymous ==
    /\ Len(part_in.variables) >= 2
    /\ NoneName \in VarNameSet(part_in.variables)

\* C14: with two or more variables, one of them anonymous, the partitioner
\* never raises; each fragment it yields binds the named variables only; and
\* when it has ended it has yielded every valid joint partition, the anonymous
\* variable's share left out.
C14_AnonymousRunsThrough ==
    HasAnonymous =>
        /\ part_pc # "raised"
        /\ part_yielded # <<>> =>
              DOMAIN LastYielded = VarNameSet(part_in.variables) \ {NoneName}
        /\ part_pc = "done" =>
              {WithoutNone(S) : S \in ValidAssignments(part_in.values, part_in.variables)}
                  \subseteq Range(part_yielded)

\* What a caller that kept every fragment it was handed holds once it looks at
\* them: the partitioner yields the dict subst itself each time, never a copy,
\* so every kept fragment is that one dict as it is now.
Collected == [i \in 1..Len(part_yielded) |-> subst]

\* C15: in the multi-variable case, the fragments a caller has collected still
\* hold, after the partitioner has ended, the bindings each had when it was
\* yielded.
C15_YieldedFragmentsStable ==
    (Len(part_in.variables) >= 2 /\ part_pc = "done") => Collected = part_yielded

(***************************************************************************)
(* Expressions.  An expression is a tree of Symbol, Variable and Operation *)
(* nodes.  As values the trees are records whose operands are trees; as    *)
(* Python objects they live in the heap, where a node's operands are the   *)
(* ids of other nodes, so that "the same object" and "not modified" mean   *)
(* something.                                                              *)
(***************************************************************************)
Symbol(n) == [kind |-> "Symbol", name |-> n, operands |-> <<>>]
Variable(n) == [kind |-> "Variable", name |-> n, operands |-> <<>>]
Operation(head, operands) == [kind |-> "Operation", name |-> head, operands |-> operands]

\* Building the objects of a tree, operands first; the node's id is its place
\* in the heap.
RECURSIVE Alloc(_, _), AllocAll(_, _)
AllocAll(h, trees) ==
    IF Len(trees) = 0 THEN [heap |-> h, ids |-> <<>>]
    ELSE LET first == Alloc(h, Head(trees))
             rest == AllocAll(first.heap, Tail(trees))
         IN  [heap |-> rest.heap, ids |-> <<first.id>> \o rest.ids]

Alloc(h, t) ==
    LET ops == AllocAll(h, t.operands)
    IN  [heap |-> Append(ops.heap, [kind |-> t.kind, name |-> t.name, operands |-> ops.ids]),
         id |-> Len(ops.heap) + 1]

\* The tree an object stands for.
RECURSIVE TreeOf(_, _)
TreeOf(h, id) ==
    [kind |-> h[id].kind, name |-> h[id].name,
     operands |-> [i \in 1..Len(h[id].operands) |-> TreeOf(h, h[id].operands[i])]]

\* type(expression).from_args(*operands) for an operation without arity or
\* flattening constraints: a new Operation object with these operands.
from_args(h, head, operands) ==
    [heap |-> Append(h, [kind |-> "Operation", name |-> head, operands |-> operands]),
     id |-> Len(h) + 1]

\* What substitute and replace hand back: one expression (list = FALSE, one id)
\* or a Python list of expressions (list = TRUE).
One(id) == [list |-> FALSE, ids |-> <<id>>]

(***************************************************************************)
(* substitute(expression, substitution)                                    *)
(***************************************************************************)
AnyReplacedBuggy(any_replaced, replaced) == replaced

\* if replaced: any_replaced = True
AnyReplaced(any_replaced, replaced) == any_replaced \/ replaced

\* new_operands.extend(result) for a list, new_operands.append(result) otherwise
NewOperands(new_operands, result) ==
    IF result.list THEN new_operands \o result.ids
    ELSE Append(new_operands, result.ids[1])

RECURSIVE Substitute(_, _, _), SubstituteOperands(_, _, _)
\* The loop over expression.operands; acc holds the heap, new_operands and
\* any_replaced.
SubstituteOperands(acc, operands, substitution) ==
    IF Len(operands) = 0 THEN acc
    ELSE LET r == Substitute(acc.heap, Head(operands), substitution)
         IN  SubstituteOperands(
                [heap |-> r.heap,
                 new_operands |-> NewOperands(acc.new_operands, r.result),
                 any_replaced |-> AnyReplaced(acc.any_replaced, r.replaced)],
                Tail(operands), substitution)

Substitute(h, expression, substitution) ==
    LET node == h[expression]
        unchanged == [heap |-> h, result |-> One(expression), replaced |-> FALSE]
    IN  IF node.kind = "Variable"
        THEN IF node.name \in DOMAIN substitution
             THEN [heap |-> h, result |-> substitution[node.name], replaced |-> TRUE]
             ELSE unchanged
        ELSE IF node.kind = "Operation"
        THEN LET loop == SubstituteOperands(
                            [heap |-> h, new_operands |-> <<>>, any_replaced |-> FALSE],
                            node.operands, substitution)
             IN  IF loop.any_replaced
                 THEN LET made == from_args(loop.heap, node.name, loop.new_operands)
                      IN  [heap |-> made.heap, result |-> One(made.id), replaced |-> TRUE]
                 ELSE unchanged
        ELSE unchanged

(***************************************************************************)
(* replace(expression, position, replacement)                              *)
(***************************************************************************)
\* Python's list indexing and slicing, on 0-based and possibly negative indices
PyValidIndex(seq, i) == -Len(seq) <= i /\ i < Len(seq)
PyItem(i, n) == IF i < 0 THEN n + i + 1 ELSE i + 1
PyClamp(i, n) ==
    IF i < 0 THEN (IF n + i < 0 THEN 0 ELSE n + i)
    ELSE IF i > n THEN n ELSE i
PySlice(seq, lo, hi) ==
    SubSeq(seq, PyClamp(lo, Len(seq)) + 1, PyClamp(hi, Len(seq)))

AssignOperandBuggy(h, expression, pos, subexpr) ==
    LET operands == [h[expression].operands EXCEPT ![PyItem(pos, Len(h[expression].operands))] = subexpr]
    IN  [heap |-> [h EXCEPT ![expression].operands = operands], operands |-> operands]

\* operands = expression.operands.copy(); operands[pos] = subexpr
AssignOperand(h, expression, pos, subexpr) ==
    [heap |-> h,
     operands |-> [h[expression].operands EXCEPT ![PyItem(pos, Len(h[expression].operands))] = subexpr]]

Raised == [err |-> TRUE, list |-> FALSE, ids |-> <<>>]

RECURSIVE Replace(_, _, _, _)
Replace(h, expression, position, replacement) ==
    LET node == h[expression]
        pos == position[1]
    IN  IF Len(position) = 0
        THEN [heap |-> h, result |-> [err |-> FALSE, list |-> replacement.list,
                                      ids |-> replacement.ids]]
        ELSE IF node.kind # "Operation" THEN [heap |-> h, result |-> Raised]
        ELSE IF pos >= Len(node.operands) THEN [heap |-> h, result |-> Raised]
        ELSE IF ~PyValidIndex(node.operands, pos) THEN [heap |-> h, result |-> Raised]
        ELSE LET sub == Replace(h, node.operands[PyItem(pos, Len(node.operands))],
                                Tail(position), replacement)
                 n == Len(node.operands)
             IN  IF sub.result.err THEN sub
                 ELSE IF sub.result.list
                 THEN LET made == from_args(sub.heap, node.name,
                                     PySlice(node.operands, 0, pos) \o sub.result.ids
                                        \o PySlice(node.operands, pos + 1, n))
                      IN  [heap |-> made.heap,
                           result |-> [err |-> FALSE, list |-> FALSE, ids |-> <<made.id>>]]
                 ELSE LET assigned == AssignOperand(sub.heap, expression, pos, sub.result.ids[1])
                          made == from_args(assigned.heap, node.name, assigned.operands)
                      IN  [heap |-> made.heap,
                           result |-> [err |-> FALSE, list |-> FALSE, ids |-> <<made.id>>]]

(***************************************************************************)
(* Specification SpecExpr: one call of substitute or of replace, on an     *)
(* expression, substitution, position and replacement drawn from small     *)
(* sets.  The root is a leaf or an operation f over up to MaxArity         *)
(* operands, each a leaf or an operation g.                                *)
(***************************************************************************)
Leaves == {Symbol("a"), Variable("x"), Variable("y")}

Inner ==
    Leaves \cup {Operation("g", <<>>), Operation("g", <<Variable("x")>>),
                 Operation("g", <<Symbol("a"), Variable("y")>>)}

Trees ==
    Leaves \cup {Operation("f", ops) : ops \in UNION {[1..n -> Inner] : n \in 0..MaxArity}}

\* What a variable can be bound to, and what can be put in at a position: one
\* expression, or a list of none or of two.
Bindings ==
    {[list |-> FALSE, trees |-> <<Symbol("c")>>],
     [list |-> FALSE, trees |-> <<Variable("y")>>],
     [list |-> TRUE, trees |-> <<>>],
     [list |-> TRUE, trees |-> <<Symbol("b"), Symbol("c")>>]}

Substitutions == UNION {[D -> Bindings] : D \in SUBSET {"x", "y"}}

Positions == UNION {[1..n -> (-2)..MaxIndex] : n \in {0, 1, 2}}

NoBinding == [list |-> TRUE, trees |-> <<>>]

ExprInputs ==
    {[op |-> "substitute", tree |-> t, substitution |-> s, position |-> <<>>,
      replacement |-> NoBinding] : t \in Trees, s \in Substitutions}
    \cup
    {[op |-> "replace", tree |-> t, substitution |-> <<>>, position |-> p,
      replacement |-> r] : t \in Trees, p \in Positions, r \in Bindings}

\* The objects of the arguments: the expression, then each binding, then the
\* replacement.
BuildBinding(h, b) ==
    LET made == AllocAll(h, b.trees)
    IN  [heap |-> made.heap, binding |-> [list |-> b.list, ids |-> made.ids]]

Objects(in) ==
    LET root == Alloc(<<>>, in.tree)
        bound(n) == IF n \in DOMAIN in.substitution THEN in.substitution[n] ELSE NoBinding
        bx == BuildBinding(root.heap, bound("x"))
        by == BuildBinding(bx.heap, bound("y"))
        r == BuildBinding(by.heap, in.replacement)
    IN  [heap |-> r.heap,
         expression |-> root.id,
         substitution |-> [n \in DOMAIN in.substitution |->
                              IF n = "x" THEN bx.binding ELSE by.binding],
         replacement |-> r.binding]

InitExpr ==
    /\ IdleBsl
    /\ cache = <<>>
    /\ IdleEnums
    /\ IdleChain
    /\ IdlePart
    /\ IdleRewrite
    /\ IdleVec
    /\ expr_in \in ExprInputs
    /\ heap = Objects(expr_in).heap
    /\ expr_pc = "ready"
    /\ expr_out = [kind |-> "none"]

SubstituteCall ==
    /\ expr_pc = "ready"
    /\ expr_in.op = "substitute"
    /\ LET o == Objects(expr_in)
           r == Substitute(heap, o.expression, o.substitution)
       IN  /\ heap' = r.heap
           /\ expr_out' = [kind |-> "returned", result |-> r.result, replaced |-> r.replaced]
    /\ expr_pc' = "substituted"
    /\ UNCHANGED <<expr_in, bslVars, solveVars, chainVars, partVars, rewriteVars, vecVars>>

ReplaceCall ==
    /\ expr_pc = "ready"
    /\ expr_in.op = "replace"
    /\ LET o == Objects(expr_in)
           r == Replace(heap, o.expression, expr_in.position, o.replacement)
       IN  /\ heap' = r.heap
           /\ expr_out' = [kind |-> IF r.result.err THEN "raised" ELSE "returned",
                           result |-> [list |-> r.result.list, ids |-> r.result.ids],
                           replaced |-> FALSE]
    /\ expr_pc' = "replaced"
    /\ UNCHANGED <<expr_in, bslVars, solveVars, chainVars, partVars, rewriteVars, vecVars>>

NextExpr == SubstituteCall \/ ReplaceCall

SpecExpr == InitExpr /\ [][NextExpr]_vars

(***************************************************************************)
(* C7, C8, C9                                                              *)
(***************************************************************************)
\* The trees of a result: one for an expression, one per element for a list
ResultTrees(h, result) == [i \in 1..Len(result.ids) |-> TreeOf(h, result.ids[i])]

\* Some Variable node of t, t itself or under its operands, has a name in names
RECURSIVE HasBoundVariable(_, _)
HasBoundVariable(t, names) ==
    \/ t.kind = "Variable" /\ t.name \in names
    \/ \E i \in 1..Len(t.operands) : HasBoundVariable(t.operands[i], names)

\* t with every bound Variable replaced by its binding, as a sequence of trees:
\* the elements of a list binding take the variable's place among the operands
RECURSIVE Substituted(_, _)
Substituted(t, s) ==
    IF t.kind = "Variable" /\ t.name \in DOMAIN s THEN s[t.name].trees
    ELSE IF t.kind = "Operation"
    THEN <<Operation(t.name,
                     Flatten([i \in 1..Len(t.operands) |-> Substituted(t.operands[i], s)]))>>
    ELSE <<t>>

\* C7: substitute reports a change exactly when some Variable node of the
\* expression has a name bound by the substitution; without a change it returns
\* the input object itself; with a change the result is the expression with each
\* bound Variable replaced by its binding, the elements of a list binding
\* spliced in order into the operand list at the variable's place.
C7_SubstituteContract ==
    expr_pc = "substituted" =>
        LET o == Objects(expr_in)
            t == expr_in.tree
            s == expr_in.substitution
        IN  /\ expr_out.replaced = HasBoundVariable(t, DOMAIN s)
            /\ ~expr_out.replaced => expr_out.result = One(o.expression)
            /\ expr_out.replaced =>
                  /\ ResultTrees(heap, expr_out.result) = Substituted(t, s)
                  /\ expr_out.result.list = (t.kind = "Variable" /\ s[t.name].list)

\* f(x, ...) or f(..., x) with x bound to a list of two came back with one more
\* operand, x not being the last operand looked at.
C7_Witness ==
    /\ expr_pc = "substituted"
    /\ expr_out.replaced
    /\ expr_in.tree.kind = "Operation"
    /\ Len(expr_in.tree.operands) = 2
    /\ expr_in.tree.operands[1] = Variable("x")
    /\ expr_in.tree.operands[2] = Symbol("a")
    /\ "x" \in DOMAIN expr_in.substitution
    /\ Len(expr_in.substitution["x"].trees) = 2
    /\ Len(heap[expr_out.result.ids[1]].operands) = 3

\* p addresses an existing node of t: every index is an operand index, 0-based,
\* of the Operation reached
RECURSIVE AddressesNode(_, _)
AddressesNode(t, p) ==
    \/ Len(p) = 0
    \/ /\ t.kind = "Operation"
       /\ p[1] \in 0..(Len(t.operands) - 1)
       /\ AddressesNode(t.operands[p[1] + 1], Tail(p))

\* t with the node at the non-empty position p replaced by the trees of r
RECURSIVE TreeReplaced(_, _, _)
TreeReplaced(t, p, r) ==
    LET i == p[1] + 1
        n == Len(t.operands)
    IN  IF Len(p) = 1
        THEN Operation(t.name, SubSeq(t.operands, 1, i - 1) \o r.trees
                                  \o SubSeq(t.operands, i + 1, n))
        ELSE Operation(t.name, [t.operands EXCEPT ![i] = TreeReplaced(@, Tail(p), r)])

\* The new objects along p hold, off the path, the very operands of the old ones
RECURSIVE OffPathShared(_, _, _, _, _)
OffPathShared(h, old, new, p, ids) ==
    LET i == p[1] + 1
        was == h[old].operands
        now == h[new].operands
    IN  IF Len(p) = 1
        THEN now = SubSeq(was, 1, i - 1) \o ids \o SubSeq(was, i + 1, Len(was))
        ELSE /\ Len(now) = Len(was)
             /\ \A j \in 1..Len(was) : j # i => now[j] = was[j]
             /\ OffPathShared(h, was[i], now[i], Tail(p), ids)

\* C8: for a position that addresses an existing node, replace returns the
\* replacement itself when the position is empty, and otherwise an expression
\* equal to the input except that the node at the position is replaced, a list
\* replacement spliced in order in place of that one operand; the operands off
\* the path are the input's own, and no object of the input is modified.
C8_ReplaceFrame ==
    (expr_pc = "replaced" /\ AddressesNode(expr_in.tree, expr_in.position)) =>
        LET o == Objects(expr_in)
            p == expr_in.position
        IN  /\ expr_out.kind = "returned"
            /\ IsPrefix(o.heap, heap)
            /\ IF Len(p) = 0 THEN expr_out.result = o.replacement
               ELSE /\ ~expr_out.result.list
                    /\ TreeOf(heap, expr_out.result.ids[1])
                          = TreeReplaced(expr_in.tree, p, expr_in.replacement)
                    /\ OffPathShared(heap, o.expression, expr_out.result.ids[1], p,
                                     o.replacement.ids)

\* A list of two was put in at a position two levels down, next to an operand
\* that had to stay.
C8_Witness ==
    /\ expr_pc = "replaced"
    /\ AddressesNode(expr_in.tree, expr_in.position)
    /\ Len(expr_in.position) = 2
    /\ Len(expr_in.tree.operands) = 2
    /\ Len(expr_in.replacement.trees) = 2
    /\ expr_out.kind = "returned"

\* C9: replace raises, and returns nothing, whenever the position does not
\* address a node: it reaches a node that is not an Operation with indices
\* left, or an index outside 0..n-1 at a node with n operands.
C9_InvalidPositionRaises ==
    (expr_pc = "replaced" /\ ~AddressesNode(expr_in.tree, expr_in.position)) =>
        expr_out.kind = "raised"

\* What C9 leaves standing: the same for positions without a negative index.
InvalidPositionRaisesFromZero ==
    (/\ expr_pc = "replaced"
     /\ ~AddressesNode(expr_in.tree, expr_in.position)
     /\ \A i \in 1..Len(expr_in.position) : expr_in.position[i] >= 0)
        => expr_out.kind = "raised"

(***************************************************************************)
(* replace_all(expression, rules).  The matcher, the head of an            *)
(* expression and its preorder traversal belong to the expression and      *)
(* matching modules; they are modelled by what the rewrite loop needs of   *)
(* them: a syntactic one-to-one match whose first substitution is used, a  *)
(* head that is the operator of an Operation, the symbol of a Symbol and   *)
(* None for a variable or wildcard, and a traversal that yields every      *)
(* subexpression passing the predicate, with its position, node before     *)
(* operands, left to right.                                                *)
(***************************************************************************)
\* A wildcard that matches any one Symbol and binds nothing
Wildcard == [kind |-> "Wildcard", name |-> "Symbol", operands |-> <<>>]

HeadOf(e) ==
    IF e.kind = "Operation" THEN <<"Operation", e.name>>
    ELSE IF e.kind = "Symbol" THEN <<"Symbol", e.name>>
    ELSE None

RECURSIVE MatchInto(_, _, _), MatchOperands(_, _, _)
MatchOperands(subjects, patterns, acc) ==
    IF Len(patterns) = 0 \/ ~acc.ok THEN acc
    ELSE MatchOperands(Tail(subjects), Tail(patterns),
                       MatchInto(Head(subjects), Head(patterns), acc))

MatchInto(subject, pattern, acc) ==
    LET no == [ok |-> FALSE, subst |-> acc.subst]
    IN  IF pattern.kind = "Variable"
        THEN IF pattern.name \in DOMAIN acc.subst
             THEN [ok |-> acc.subst[pattern.name] = subject, subst |-> acc.subst]
             ELSE [ok |-> TRUE, subst |-> (pattern.name :> subject) @@ acc.subst]
        ELSE IF pattern.kind = "Wildcard"
        THEN [ok |-> subject.kind = "Symbol", subst |-> acc.subst]
        ELSE IF pattern.kind = "Symbol"
        THEN [ok |-> subject = pattern, subst |-> acc.subst]
        ELSE IF /\ subject.kind = "Operation"
                /\ subject.name = pattern.name
                /\ Len(subject.operands) = Len(pattern.operands)
             THEN MatchOperands(subject.operands, pattern.operands, acc)
             ELSE no

\* next(match(subexpr, pattern)): ok = FALSE stands for StopIteration
Match(subject, pattern) == MatchInto(subject, pattern, [ok |-> TRUE, subst |-> <<>>])

RECURSIVE preorder_iter(_, _, _)
preorder_iter(t, head, position) ==
    (IF head = None \/ HeadOf(t) = head THEN <<[subexpr |-> t, pos |-> position]>> ELSE <<>>)
    \o Flatten([i \in 1..Len(t.operands) |->
                    preorder_iter(t.operands[i], head, Append(position, i - 1))])

\* itertools.groupby(rules, lambda r: r.pattern.head): runs of neighbouring rules
\* with the same head
RECURSIVE GroupBy(_)
GroupBy(rules) ==
    IF Len(rules) = 0 THEN <<>>
    ELSE LET rest == GroupBy(Tail(rules))
             head == HeadOf(rules[1].pattern)
         IN  IF Len(rest) > 0 /\ rest[1].head = head
             THEN <<[head |-> head, group |-> <<rules[1]>> \o rest[1].group]>> \o Tail(rest)
             ELSE <<[head |-> head, group |-> <<rules[1]>>]>> \o rest

\* replacement(**subst): the callables are templates, filled in with the
\* matched subexpressions
Call(replacement, matched) ==
    LET s == [n \in DOMAIN matched |-> [list |-> FALSE, trees |-> <<matched[n]>>]]
    IN  [list |-> replacement.list,
         trees |-> Flatten([i \in 1..Len(replacement.trees) |->
                                Substituted(replacement.trees[i], s)])]

RECURSIVE TryRules(_, _), TryRulesBuggy(_, _)
TryRulesBuggy(subexpr, group) ==
    IF Len(group) = 0 THEN None
    ELSE LET later == TryRulesBuggy(subexpr, Tail(group))
             m == Match(subexpr, group[1].pattern)
         IN  IF later # None THEN later
             ELSE IF m.ok THEN Some(Call(group[1].replacement, m.subst))
             ELSE None

\* for pattern, replacement in group: the first rule that matches subexpr
TryRules(subexpr, group) ==
    IF Len(group) = 0 THEN None
    ELSE LET m == Match(subexpr, group[1].pattern)
         IN  IF m.ok THEN Some(Call(group[1].replacement, m.subst))
             ELSE TryRules(subexpr, Tail(group))

\* for subexpr, pos in expression.preorder_iter(predicate)
RECURSIVE ScanNodes(_, _)
ScanNodes(nodes, group) ==
    IF Len(nodes) = 0 THEN None
    ELSE LET r == TryRules(nodes[1].subexpr, group)
         IN  IF r # None THEN Some([pos |-> nodes[1].pos, result |-> r[1]])
             ELSE ScanNodes(Tail(nodes), group)

RECURSIVE ScanGroups(_, _)
ScanGroupsBuggy(expression, groups) ==
    IF Len(groups) = 0 THEN None
    ELSE ScanNodes(preorder_iter(expression, groups[1].head, <<>>), groups[1].group)

\* for head, group in zip(heads, groups): one pass of the while loop, up to the
\* first replacement found
ScanGroups(expression, groups) ==
    IF Len(groups) = 0 THEN None
    ELSE LET r == ScanNodes(preorder_iter(expression, groups[1].head, <<>>), groups[1].group)
         IN  IF r # None THEN r ELSE ScanGroups(expression, Tail(groups))

\* expression = replace(expression, pos, result), on the objects of the trees
ReplaceIn(expression, pos, result) ==
    LET root == Alloc(<<>>, expression)
        r == BuildBinding(root.heap, result)
        out == Replace(r.heap, root.id, pos, r.binding)
    IN  [err |-> out.result.err, list |-> out.result.list,
         trees |-> ResultTrees(out.heap, out.result)]

(***************************************************************************)
(* Specification SpecRewrite: replace_all on a ground expression and a     *)
(* sequence of 1..MaxRules rules, one action per pass of the while loop.   *)
(* Rule sets that keep rewriting are followed for MaxPasses replacements.  *)
(***************************************************************************)
GroundInner ==
    {Symbol("a"), Operation("g", <<>>), Operation("g", <<Symbol("a")>>),
     Operation("g", <<Symbol("a"), Symbol("b")>>)}

GroundTrees ==
    GroundInner
    \cup {Operation("f", ops) : ops \in UNION {[1..n -> GroundInner] : n \in 0..MaxArity}}

Rule(pattern, list, trees) ==
    [pattern |-> pattern, replacement |-> [list |-> list, trees |-> trees]]

Rules ==
    {Rule(Symbol("a"), FALSE, <<Symbol("b")>>),
     Rule(Symbol("a"), FALSE, <<Operation("g", <<>>)>>),
     Rule(Symbol("b"), FALSE, <<Symbol("a")>>),
     Rule(Operation("g", <<Variable("x")>>), FALSE, <<Variable("x")>>),
     Rule(Wildcard, FALSE, <<Operation("g", <<>>)>>),
     Rule(Operation("g", <<Variable("x"), Variable("y")>>), TRUE,
          <<Variable("y"), Variable("x")>>)}

RuleLists == UNION {[1..n -> Rules] : n \in 1..MaxRules}

InitRewrite ==
    /\ IdleBsl
    /\ cache = <<>>
    /\ IdleEnums
    /\ IdleChain
    /\ IdlePart
    /\ IdleCall
    /\ IdleVec
    /\ rw_in \in {[expression |-> e, rules |-> rs] : e \in GroundTrees, rs \in RuleLists}
    /\ rw_expr = [list |-> FALSE, trees |-> <<rw_in.expression>>]
    /\ rw_pc = "loop"
    /\ rw_passes = 0

RewriteFrame ==
    UNCHANGED <<rw_in, heap, expr_in, expr_pc, expr_out, bslVars, solveVars, chainVars, partVars,
                vecVars>>

\* A pass that finds a rule to apply: replaced = True, and round the loop again
RewritePass ==
    /\ rw_pc = "loop"
    /\ ~rw_expr.list
    /\ rw_passes < MaxPasses
    /\ LET hit == ScanGroups(rw_expr.trees[1], GroupBy(rw_in.rules))
       IN  /\ hit # None
           /\ LET out == ReplaceIn(rw_expr.trees[1], hit[1].pos, hit[1].result)
              IN  IF out.err
                  THEN rw_pc' = "raised" /\ UNCHANGED rw_expr
                  ELSE /\ rw_expr' = [list |-> out.list, trees |-> out.trees]
                       /\ UNCHANGED rw_pc
    /\ rw_passes' = rw_passes + 1
    /\ RewriteFrame

\* A pass that finds none: replaced stays False, the loop ends and the
\* expression is returned
RewriteReturn ==
    /\ rw_pc = "loop"
    /\ ~rw_expr.list
    /\ ScanGroups(rw_expr.trees[1], GroupBy(rw_in.rules)) = None
    /\ rw_pc' = "returned"
    /\ rw_passes' = rw_passes + 1
    /\ UNCHANGED rw_expr
    /\ RewriteFrame

\* The root was replaced by a list: expression.preorder_iter raises
\* AttributeError in the next pass
RewriteRaise ==
    /\ rw_pc = "loop"
    /\ rw_expr.list
    /\ rw_pc' = "raised"
    /\ UNCHANGED <<rw_expr, rw_passes>>
    /\ RewriteFrame

NextRewrite == RewritePass \/ RewriteReturn \/ RewriteRaise

SpecRewrite == InitRewrite /\ [][NextRewrite]_vars

(***************************************************************************)
(* C10                                                                     *)
(***************************************************************************)
RECURSIVE Subexpressions(_)
Subexpressions(t) ==
    {t} \cup UNION {Subexpressions(t.operands[i]) : i \in 1..Len(t.operands)}

\* No rule matches a subexpression of t that passes the head filter of the rule
NoRuleApplies(t, rules) ==
    \A i \in 1..Len(rules) : \A e \in Subexpressions(t) :
        (HeadOf(rules[i].pattern) = None \/ HeadOf(e) = HeadOf(rules[i].pattern))
            => ~Match(e, rules[i].pattern).ok

\* C10: what replace_all returns is a fixpoint of the rules: no rule matches
\* any subexpression of the result whose head passes the head filter of the
\* rule's group (every subexpression when that head is None); and when no rule
\* applies to the input, the input is returned, unchanged, after one pass.
C10_ReturnsFixpoint ==
    rw_pc = "returned" =>
        /\ ~rw_expr.list
        /\ NoRuleApplies(rw_expr.trees[1], rw_in.rules)
        /\ NoRuleApplies(rw_in.expression, rw_in.rules) =>
              (rw_expr.trees[1] = rw_in.expression /\ rw_passes = 1)

\* Returned after two or more replacements made by rules of two groups, the
\* rule of the second group having matched the input.
C10_Witness ==
    /\ rw_pc = "returned"
    /\ rw_passes >= 3
    /\ Len(GroupBy(rw_in.rules)) = 2
    /\ ~NoRuleApplies(rw_in.expression, SubSeq(rw_in.rules, 2, 2))

(***************************************************************************)
(* fixed_integer_vector_iter and integer_partition_vector_iter.  Each is a *)
(* generator that recurses on the rest of the vector; a suspended          *)
(* generator is the stack of its levels, each with its loop variable, and  *)
(* these loop variables are the tuple it last yielded.  First is the first *)
(* next() on a fresh generator, Resume a next() on a suspended one, Scan   *)
(* the for loop of one level from a given value of its variable on; None   *)
(* stands for the generator ending.                                        *)
(***************************************************************************)
RECURSIVE Sum(_)
Sum(v) == IF Len(v) = 0 THEN 0 ELSE v[1] + Sum(Tail(v))

Max(a, b) == IF a >= b THEN a ELSE b
Min(a, b) == IF a <= b THEN a ELSE b

\* start = max(max_vector[0] + vector_sum - total, 0)
FivStart(max_vector, vector_sum) == Max(max_vector[1] + vector_sum - Sum(max_vector), 0)

FivStopBuggy(max_vector, vector_sum) == Min(max_vector[1], vector_sum)

\* end = min(max_vector[0], vector_sum); the loop is over range(start, end + 1)
FivStop(max_vector, vector_sum) == Min(max_vector[1], vector_sum) + 1

RECURSIVE FivFirst(_, _), FivScan(_, _, _), FivResume(_, _, _)
FivFirst(max_vector, vector_sum) ==
    IF Len(max_vector) = 0
    THEN (IF vector_sum = 0 THEN Some(<<>>) ELSE None)
    ELSE IF vector_sum <= Sum(max_vector)
    THEN FivScan(max_vector, vector_sum, FivStart(max_vector, vector_sum))
    ELSE None

FivScan(max_vector, vector_sum, j) ==
    IF j >= FivStop(max_vector, vector_sum) THEN None
    ELSE LET vect == FivFirst(Tail(max_vector), vector_sum - j)
         IN  IF vect # None THEN Some(<<j>> \o vect[1])
             ELSE FivScan(max_vector, vector_sum, j + 1)

FivResume(max_vector, vector_sum, loop) ==
    IF Len(max_vector) = 0 THEN None
    ELSE LET vect == FivResume(Tail(max_vector), vector_sum - loop[1], Tail(loop))
         IN  IF vect # None THEN Some(<<loop[1]>> \o vect[1])
             ELSE FivScan(max_vector, vector_sum, loop[1] + 1)

IpvStopBuggy(total) == total

\* for i in range(0, total + 1)
IpvStop(total) == total + 1

RECURSIVE IpvFirst(_, _), IpvScan(_, _, _), IpvResume(_, _, _)
IpvFirst(total, parts) ==
    IF parts < 0 THEN None
    ELSE IF parts = 0 THEN (IF total = 0 THEN Some(<<>>) ELSE None)
    ELSE IF parts = 1 THEN Some(<<total>>)
    ELSE IpvScan(total, parts, 0)

IpvScan(total, parts, i) ==
    IF i >= IpvStop(total) THEN None
    ELSE LET vect == IpvFirst(total - i, parts - 1)
         IN  IF vect # None THEN Some(<<i>> \o vect[1])
             ELSE IpvScan(total, parts, i + 1)

IpvResume(total, parts, loop) ==
    IF parts <= 1 THEN None
    ELSE LET vect == IpvResume(total - loop[1], parts - 1, Tail(loop))
         IN  IF vect # None THEN Some(<<loop[1]>> \o vect[1])
             ELSE IpvScan(total, parts, loop[1] + 1)

(***************************************************************************)
(* Specification SpecVec: one of the two iterators is called and drained,  *)
(* one next() per step.                                                    *)
(***************************************************************************)
MaxVectors == UNION {[1..n -> 0..MaxComp] : n \in 0..MaxVecLen}

VecInputs ==
    {[fn |-> "fixed", max_vector |-> m, vector_sum |-> k, total |-> 0, parts |-> 0] :
        m \in MaxVectors, k \in (-1)..(MaxVecLen * MaxComp + 1)}
    \cup
    {[fn |-> "partition", max_vector |-> <<>>, vector_sum |-> 0, total |-> t, parts |-> n] :
        t \in (-1)..MaxPartTotal, n \in (-1)..MaxParts}

InitVec ==
    /\ IdleBsl
    /\ cache = <<>>
    /\ IdleEnums
    /\ IdleChain
    /\ IdlePart
    /\ IdleCall
    /\ IdleRewrite
    /\ vec_in \in VecInputs
    /\ vec = [pc |-> "new", loop |-> <<>>]
    /\ vec_yielded = <<>>

\* What a next() that came back with r leaves behind
VecAfter(r) ==
    IF r = None
    THEN vec' = [pc |-> "done", loop |-> <<>>] /\ UNCHANGED vec_yielded
    ELSE vec' = [pc |-> "yielded", loop |-> r[1]] /\ vec_yielded' = Append(vec_yielded, r[1])

VecFrame ==
    UNCHANGED <<vec_in, bslVars, solveVars, chainVars, partVars, heap, expr_in, expr_pc,
                expr_out, rewriteVars>>

FixedNext ==
    /\ vec_in.fn = "fixed"
    /\ vec.pc # "done"
    /\ VecAfter(IF vec.pc = "new" THEN FivFirst(vec_in.max_vector, vec_in.vector_sum)
                ELSE FivResume(vec_in.max_vector, vec_in.vector_sum, vec.loop))
    /\ VecFrame

PartitionNext ==
    /\ vec_in.fn = "partition"
    /\ vec.pc # "done"
    /\ VecAfter(IF vec.pc = "new" THEN IpvFirst(vec_in.total, vec_in.parts)
                ELSE IpvResume(vec_in.total, vec_in.parts, vec.loop))
    /\ VecFrame

NextVec == FixedNext \/ PartitionNext

SpecVec == InitVec /\ [][NextVec]_vars

(***************************************************************************)
(* C11, C12                                                                *)
(***************************************************************************)
\* u comes before v in lexicographic order, for tuples of one length
LexLess(u, v) ==
    \E i \in 1..Len(u) : u[i] < v[i] /\ \A j \in 1..(i - 1) : u[j] = v[j]

StrictlyIncreasing(vs) == \A i \in 1..(Len(vs) - 1) : LexLess(vs[i], vs[i + 1])

BoundedVectors(max_vector, vector_sum) ==
    {v \in [1..Len(max_vector) -> 0..MaxComp] :
        /\ \A i \in 1..Len(max_vector) : v[i] <= max_vector[i]
        /\ Sum(v) = vector_sum}

\* C11: fixed_integer_vector_iter yields only vectors of max_vector's length
\* with 0 <= v[i] <= max_vector[i] and sum vector_sum, in strictly increasing
\* lexicographic order (so each once), and when drained it has yielded all of
\* them; for a zero-length max_vector that is the empty tuple iff vector_sum = 0.
C11_FixedVectorsExact ==
    vec_in.fn = "fixed" =>
        LET all == BoundedVectors(vec_in.max_vector, vec_in.vector_sum)
        IN  /\ Range(vec_yielded) \subseteq all
            /\ StrictlyIncreasing(vec_yielded)
            /\ vec.pc = "done" =>
                  /\ Range(vec_yielded) = all
                  /\ Len(vec_in.max_vector) = 0 =>
                        vec_yielded = (IF vec_in.vector_sum = 0 THEN <<<<>>>> ELSE <<>>)

\* Drained after three or more vectors of length three, the first component
\* having had to start above zero.
C11_Witness ==
    /\ vec_in.fn = "fixed"
    /\ vec.pc = "done"
    /\ Len(vec_in.max_vector) = 3
    /\ Len(vec_yielded) >= 3
    /\ vec_yielded[1][1] > 0

RECURSIVE Binomial(_, _)
Binomial(n, k) ==
    IF k < 0 \/ k > n THEN 0
    ELSE IF k = 0 THEN 1
    ELSE Binomial(n - 1, k - 1) + Binomial(n - 1, k)

Compositions(total, parts) ==
    {v \in [1..parts -> 0..total] : Sum(v) = total}

\* C12: for total >= 0, integer_partition_vector_iter yields only parts-length
\* tuples of non-negative integers with sum total, in strictly increasing
\* lexicographic order, and when drained it has yielded all of them:
\* C(total+parts-1, parts-1) tuples for parts >= 1, the empty tuple iff
\* total = 0 for parts = 0, nothing for parts < 0.
C12_PartitionVectorsExact ==
    (vec_in.fn = "partition" /\ vec_in.total >= 0) =>
        LET total == vec_in.total
            parts == vec_in.parts
        IN  /\ parts < 0 => vec_yielded = <<>>
            /\ parts >= 0 =>
                  /\ Range(vec_yielded) \subseteq Compositions(total, parts)
                  /\ StrictlyIncreasing(vec_yielded)
                  /\ vec.pc = "done" =>
                        /\ Range(vec_yielded) = Compositions(total, parts)
                        /\ parts >= 1 =>
                              Len(vec_yielded) = Binomial(total + parts - 1, parts - 1)
                        /\ parts = 0 =>
                              vec_yielded = (IF total = 0 THEN <<<<>>>> ELSE <<>>)

\* Drained after the ten tuples of three parts with sum three.
C12_Witness ==
    /\ vec_in.fn = "partition"
    /\ vec.pc = "done"
    /\ vec_in.parts = 3
    /\ vec_in.total = 3
    /\ Len(vec_yielded) = 10

(***************************************************************************)
(* C13                                                                     *)
(***************************************************************************)
\* The group of rule i: one more than the number of head changes before it
GroupOf(rules, i) ==
    1 + Cardinality({j \in 2..i : HeadOf(rules[j].pattern) # HeadOf(rules[j - 1].pattern)})

RECURSIVE PositionsOf(_)
PositionsOf(t) ==
    {<<>>} \cup UNION {{<<i - 1>> \o p : p \in PositionsOf(t.operands[i])} :
                          i \in 1..Len(t.operands)}

RECURSIVE SubexprAt(_, _)
SubexprAt(t, p) == IF Len(p) = 0 THEN t ELSE SubexprAt(t.operands[p[1] + 1], Tail(p))

\* p is visited before q in preorder: a node before what is under it, an
\* operand before the operands to its right
PreorderBefore(p, q) ==
    \/ Len(p) < Len(q) /\ IsPrefix(p, q)
    \/ \E i \in 1..Min(Len(p), Len(q)) :
          p[i] < q[i] /\ \A j \in 1..(i - 1) : p[j] = q[j]

\* The rules and positions a step could use: the subexpression at the position
\* passes the head filter of the rule and the rule matches it
Candidates(t, rules) ==
    {c \in [rule : 1..Len(rules), pos : PositionsOf(t)] :
        LET pattern == rules[c.rule].pattern
            e == SubexprAt(t, c.pos)
        IN  /\ HeadOf(pattern) = None \/ HeadOf(e) = HeadOf(pattern)
            /\ Match(e, pattern).ok}

Earlier(rules, c, d) ==
    \/ GroupOf(rules, c.rule) < GroupOf(rules, d.rule)
    \/ /\ GroupOf(rules, c.rule) = GroupOf(rules, d.rule)
       /\ \/ PreorderBefore(c.pos, d.pos)
          \/ c.pos = d.pos /\ c.rule < d.rule

\* The expression after rule c.rule is applied at c.pos, and nowhere else
Applied(t, rules, c) ==
    LET result == Call(rules[c.rule].replacement,
                       Match(SubexprAt(t, c.pos), rules[c.rule].pattern).subst)
    IN  IF Len(c.pos) = 0 THEN result
        ELSE [list |-> FALSE, trees |-> <<TreeReplaced(t, c.pos, result)>>]

\* C13: a pass of replace_all that rewrites applies one rule at one position:
\* of all rules and positions that could be used, the one in the earliest group
\* of neighbouring rules with the same head, there at the earliest position in
\* preorder, there the earliest rule; every pass, the one after a rewrite
\* included, chooses among all groups and the whole current tree.
C13_StepSelection ==
    [][(rw_pc = "loop" /\ rw_passes' = rw_passes + 1 /\ rw_pc' = "loop") =>
          LET t == rw_expr.trees[1]
              cands == Candidates(t, rw_in.rules)
          IN  /\ cands # {}
              /\ \E c \in cands :
                    /\ \A d \in cands \ {c} : Earlier(rw_in.rules, c, d)
                    /\ rw_expr' = Applied(t, rw_in.rules, c)]_vars

\* After a first step for which two rules of one group matched at two
\* positions each, the results of the four choices all different.
C13_Witness ==
    /\ rw_pc = "loop"
    /\ rw_passes = 1
    /\ Len(rw_in.rules) = 2
    /\ GroupOf(rw_in.rules, 2) = 1
    /\ LET cands == Candidates(rw_in.expression, rw_in.rules)
       IN  /\ Cardinality(cands) = 4
           /\ \A c, d \in cands :
                 c # d => Applied(rw_in.expression, rw_in.rules, c)
                            # Applied(rw_in.expression, rw_in.rules, d)

====
